---- MODULE Spec2Model ----
(***************************************************************************)
(* Model of test/scripts/fuzzy_test.py: the differential-testing harness   *)
(* that generates random 1D/2D range queries, runs each against the        *)
(* reference (cooler) and the candidate (coolerpp_dump), compares the two  *)
(* result tables and tallies the outcome in a pool of worker processes.    *)
(*                                                                         *)
(* Conventions                                                             *)
(*  - a chromosome table (chroms_flat) is a sequence of <<name, size>>;    *)
(*    names are opaque ids, the rank of a name is its position (from 0);   *)
(*  - the float coordinates of generate_query_1d are kept exactly, in      *)
(*    quarters of a base pair (suffix 4); sampled lengths are in halves    *)
(*    of a base pair (suffix 2), so that length / 2 is a whole number of   *)
(*    quarters and the ties of the ".0f" rounding occur;                   *)
(*  - a serialized range "chrom:start-end" is the record of the three      *)
(*    fields that str.partition recovers from it (chromosome names hold no *)
(*    ":" - the region syntax of cooler does not allow one);               *)
(*  - the ratio and the uniform draw of random.random() are in halves.     *)
(***************************************************************************)
EXTENDS Integers, Sequences, FiniteSets, TLC

\* ---------------------------------------------------------------- bounds
MaxChroms == 2
MaxSize == 3
MaxLen2 == 6
MaxRows == 3
NProc == 2
MaxQueries == 2
MaxDuration == 1

VARIABLES
    chroms_flat,    \* main: list(chroms.items())
    ratio,          \* args["1d_to_2d_query_ratio"], in halves
    end_time,       \* main: time.time() + args["duration"]
    now,            \* the wall clock, time.time()
    early_return,   \* the shared mp.Value(c_bool), inherited by the forked workers
    pc,             \* position of each worker task
    num_queries,    \* worker local
    num_failures,   \* worker local
    query,          \* worker local: <<q1, q2>>
    expected,       \* worker local: result of cooler_dump
    found,          \* worker local: result of coolerpp_dump
    mpc,            \* position of main
    pool_error,     \* the exception pool.starmap re-raises, if any
    results,        \* main: the list starmap returned
    score,          \* the "Score:" line main logged
    exit_status,    \* the status the process exits with
    begun_after,    \* history: queries each worker began while the flag was set
    flag_writes,    \* history: how many times early_return.value was assigned
    num_compared,   \* history: queries of each worker whose two tables were compared
    drawn,          \* history: the draw r and the generator behind each query
    gen_in,         \* inputs of a call of generate_query_1d / generate_query_2d
    gen_out,        \* what the call returned
    cmp_in,         \* inputs of a call of results_are_identical
    cmp_out         \* what the call returned

vars == <<chroms_flat, ratio, end_time, now, early_return, pc, num_queries,
          num_failures, query, expected, found, mpc, pool_error, results,
          score, exit_status, begun_after, flag_writes, num_compared, drawn,
          gen_in, gen_out, cmp_in, cmp_out>>

workerVars == <<chroms_flat, ratio, end_time, now, early_return, pc, num_queries,
                num_failures, query, expected, found, mpc, pool_error, results,
                score, exit_status, begun_after, flag_writes, num_compared, drawn>>

callVars == <<gen_in, gen_out, cmp_in, cmp_out>>

Max(a, b) == IF a >= b THEN a ELSE b
Min(a, b) == IF a <= b THEN a ELSE b

RECURSIVE SumSeq(_)
SumSeq(s) == IF s = <<>> THEN 0 ELSE Head(s) + SumSeq(Tail(s))

\* ------------------------------------------------------ query generation

\* f"{x:.0f}": the nearest integer, ties to even; x4 is x in quarters
FormatRounded(x4) ==
    LET q == x4 \div 4
        r == x4 % 4
    IN  IF r < 2 THEN q
        ELSE IF r > 2 THEN q + 1
        ELSE IF q % 2 = 0 THEN q ELSE q + 1

ChromNames(chroms) == {chroms[i][1] : i \in DOMAIN chroms}

\* main: {chrom: i for i, chrom in enumerate(chroms.keys())}
chrom_ranks(chroms) ==
    [n \in ChromNames(chroms) |-> (CHOOSE i \in DOMAIN chroms : chroms[i][1] = n) - 1]

\* worker: chrom_sizes / chrom_sizes.sum(); only whether a weight is positive
\* matters to which element random.choices can return
TotalSize(chroms) == SumSeq([i \in DOMAIN chroms |-> chroms[i][2]])

\* random.choices(chroms, weights=weights, k=1)[0] raises on an empty
\* population (IndexError); when every size is 0 the weights are 0/0 = nan and
\* the call raises ValueError (CPython >= 3.9) or returns (CPython 3.8)
ChoicesMayRaise(chroms) == Len(chroms) = 0 \/ TotalSize(chroms) = 0

\* the indices random.choices can return: those of positive weight; with nan
\* weights the bisection of CPython 3.8 ends on the last element
ChoicesMayReturn(chroms) ==
    IF Len(chroms) = 0 THEN {}
    ELSE IF TotalSize(chroms) = 0 THEN {Len(chroms)}
    ELSE {i \in DOMAIN chroms : chroms[i][2] > 0}

\* random.gauss(mu, sigma), in halves; values below 2.0 occur
GaussDraws == 3..MaxLen2

\* the three draws of one call of generate_query_1d
Draws(chroms) ==
    {d \in [pick : ChoicesMayReturn(chroms), gauss2 : GaussDraws, center : 0..MaxSize] :
        d.center <= chroms[d.pick][2]}

\* generate_query_1d with the end left unclamped (no "min(chrom_size, ...)")
generate_query_1d_NoClamp(chroms, d) ==
    LET chrom_name == chroms[d.pick][1]
        query_length2 == Max(4, d.gauss2)
        start_pos4 == Max(0, 4 * d.center - query_length2)
        end_pos4 == start_pos4 + 2 * query_length2
    IN  [chrom |-> chrom_name,
         start |-> FormatRounded(start_pos4),
         end |-> FormatRounded(end_pos4)]

generate_query_1d(chroms, d) ==
    LET chrom_name == chroms[d.pick][1]
        chrom_size == chroms[d.pick][2]
        query_length2 == Max(4, d.gauss2)
        center_pos == d.center
        start_pos4 == Max(0, 4 * center_pos - query_length2)
        end_pos4 == Min(4 * chrom_size, start_pos4 + 2 * query_length2)
    IN  [chrom |-> chrom_name,
         start |-> FormatRounded(start_pos4),
         end |-> FormatRounded(end_pos4)]

\* generate_query_2d without the swap by start on a shared chromosome
generate_query_2d_NoStartSwap(chroms, ranks, d1, d2) ==
    LET q1 == generate_query_1d(chroms, d1)
        q2 == generate_query_1d(chroms, d2)
    IN  IF ranks[q1.chrom] > ranks[q2.chrom] THEN <<q2, q1>> ELSE <<q1, q2>>

\* the swap rule with ">=" for ">" on the starts
canonicalize_SwapsEqualStarts(ranks, q1, q2) ==
    LET byRank == IF ranks[q1.chrom] > ranks[q2.chrom] THEN <<q2, q1>> ELSE <<q1, q2>>
    IN  IF q1.chrom = q2.chrom /\ q1.start >= q2.start
        THEN <<byRank[2], byRank[1]>>
        ELSE byRank

\* generate_query_2d, lines 123-135: the swap rule on the two serialized ranges
canonicalize(ranks, q1, q2) ==
    LET chrom1 == q1.chrom
        chrom2 == q2.chrom
        byRank == IF ranks[chrom1] > ranks[chrom2] THEN <<q2, q1>> ELSE <<q1, q2>>
    IN  IF chrom1 = chrom2 /\ q1.start > q2.start
        THEN <<byRank[2], byRank[1]>>
        ELSE byRank

generate_query_2d(chroms, ranks, d1, d2) ==
    canonicalize(ranks, generate_query_1d(chroms, d1), generate_query_1d(chroms, d2))

\* what a call of generate_query_1d can return
Queries1D(chroms) == {generate_query_1d(chroms, d) : d \in Draws(chroms)}

\* what a call of generate_query_2d can return
Queries2D(chroms, ranks) ==
    {generate_query_2d(chroms, ranks, d1, d2) : d1 \in Draws(chroms), d2 \in Draws(chroms)}

\* ------------------------------------------------------ result comparison

\* the rows a result table can hold: (chrom1, start1, end1, chrom2, start2, end2, count)
PixelRows ==
    {<<1, 0, 1, 1, 0, 1, 1>>, <<1, 0, 1, 1, 1, 2, 1>>, <<1, 0, 1, 1, 1, 2, 2>>}

ResultTables == UNION {[1..n -> PixelRows] : n \in 0..MaxRows}

\* expected.compare(found): the rows, aligned by position, that differ
CompareRows(e, f) == {i \in DOMAIN e : e[i] # f[i]}

\* a comparator that matches the rows whatever their order
results_are_identical_Unordered(e, f) ==
    /\ Len(e) = Len(f)
    /\ \E p \in Permutations(DOMAIN e) : \A i \in DOMAIN e : e[i] = f[p[i]]

results_are_identical(e, f) ==
    IF Len(e) # Len(f) THEN FALSE
    ELSE IF Cardinality(CompareRows(e, f)) # 0 THEN FALSE
    ELSE TRUE

\* ------------------------------------------------------------- the worker

Workers == 0..(NProc - 1)

\* the tables the harness is run on: an empty one and {"chr1": 2}
WorkerTables == {<<>>, <<<<1, 2>>>>}

\* valid_fraction: a float in [0, 1]; here 0, 0.5 and 1
RatioValues == 0..2

\* random.random(): a float in [0, 1); here 0 and 0.5
RandomDraws == 0..1

\* what the two executors can return for a query
RowA == <<1, 0, 1, 1, 0, 1, 1>>
RowB == <<1, 0, 1, 1, 1, 2, 1>>
ReferenceResults == {<<RowA, RowB>>}
CandidateResults == {<<RowA, RowB>>, <<RowB, RowA>>}

NoQuery == <<>>
NoDraw == <<>>
NoTable == <<>>
Unset == 0 - 1

Terminated(w) == pc[w] \in {"returned", "raised"}

\* the test of line 203 the other way round
wants_2d_query_Inverted(rat, r) == r < rat

\* worker, line 203: "if _1d_to_2d_query_ratio <= random.random()"
wants_2d_query(rat, r) == rat <= r

\* worker, lines 191-196: seed the PRNG, compute the weights, open the matrix
WorkerStart(w) ==
    /\ pc[w] = "start"
    /\ \/ pc' = [pc EXCEPT ![w] = "loop"]
       \/ pc' = [pc EXCEPT ![w] = "except"]
    /\ UNCHANGED <<chroms_flat, ratio, end_time, now, early_return, num_queries,
                   num_failures, query, expected, found, mpc, pool_error, results,
                   score, exit_status, begun_after, callVars, flag_writes, num_compared, drawn>>

\* a loop that sets the flag when it leaves at the deadline
LoopTest_SignalsAtDeadline(w) ==
    /\ pc[w] = "loop"
    /\ \/ /\ now < end_time
          /\ num_queries[w] < MaxQueries
          /\ pc' = [pc EXCEPT ![w] = "poll"]
          /\ UNCHANGED early_return
       \/ /\ ~(now < end_time)
          /\ pc' = [pc EXCEPT ![w] = "returned"]
          /\ early_return' = TRUE
    /\ UNCHANGED <<chroms_flat, ratio, end_time, now, num_queries,
                   num_failures, query, expected, found, mpc, pool_error, results,
                   score, exit_status, begun_after, callVars, flag_writes, num_compared, drawn>>

\* a loop that goes on at the deadline itself ("<=" for "<")
LoopTest_InclusiveDeadline(w) ==
    /\ pc[w] = "loop"
    /\ \/ /\ now <= end_time
          /\ num_queries[w] < MaxQueries
          /\ pc' = [pc EXCEPT ![w] = "poll"]
       \/ /\ ~(now <= end_time)
          /\ pc' = [pc EXCEPT ![w] = "returned"]
    /\ UNCHANGED <<chroms_flat, ratio, end_time, now, early_return, num_queries,
                   num_failures, query, expected, found, mpc, pool_error, results,
                   score, exit_status, begun_after, callVars, flag_writes, num_compared, drawn>>

\* a loop that never looks at the clock
LoopTest_IgnoresDeadline(w) ==
    /\ pc[w] = "loop"
    /\ num_queries[w] < MaxQueries
    /\ pc' = [pc EXCEPT ![w] = "poll"]
    /\ UNCHANGED <<chroms_flat, ratio, end_time, now, early_return, num_queries,
                   num_failures, query, expected, found, mpc, pool_error, results,
                   score, exit_status, begun_after, callVars, flag_writes, num_compared, drawn>>

\* worker, line 198: "while time.time() < end_time"; line 225 when it is false
LoopTest(w) ==
    /\ pc[w] = "loop"
    /\ \/ /\ now < end_time
          /\ num_queries[w] < MaxQueries
          /\ pc' = [pc EXCEPT ![w] = "poll"]
       \/ /\ ~(now < end_time)
          /\ pc' = [pc EXCEPT ![w] = "returned"]
    /\ UNCHANGED <<chroms_flat, ratio, end_time, now, early_return, num_queries,
                   num_failures, query, expected, found, mpc, pool_error, results,
                   score, exit_status, begun_after, callVars, flag_writes, num_compared, drawn>>

\* a loop that counts the query before it looks at the flag
Poll_CountsBeforeCheck(w) ==
    /\ pc[w] = "poll"
    /\ num_queries' = [num_queries EXCEPT ![w] = @ + 1]
    /\ pc' = [pc EXCEPT ![w] = IF early_return THEN "returned" ELSE "generate"]
    /\ UNCHANGED <<chroms_flat, ratio, end_time, now, early_return,
                   num_failures, query, expected, found, mpc, pool_error, results,
                   score, exit_status, begun_after, callVars, flag_writes, num_compared, drawn>>

\* a loop that never looks at the flag
Poll_IgnoresFlag(w) ==
    /\ pc[w] = "poll"
    /\ pc' = [pc EXCEPT ![w] = "generate"]
    /\ UNCHANGED <<chroms_flat, ratio, end_time, now, early_return, num_queries,
                   num_failures, query, expected, found, mpc, pool_error, results,
                   score, exit_status, begun_after, callVars, flag_writes, num_compared, drawn>>

\* worker, lines 199-201: "if early_return.value: break"
Poll(w) ==
    /\ pc[w] = "poll"
    /\ pc' = [pc EXCEPT ![w] = IF early_return THEN "returned" ELSE "generate"]
    /\ UNCHANGED <<chroms_flat, ratio, end_time, now, early_return, num_queries,
                   num_failures, query, expected, found, mpc, pool_error, results,
                   score, exit_status, begun_after, callVars, flag_writes, num_compared, drawn>>

\* worker, lines 203-213: draw r, generate the query, count it
Generate(w) ==
    /\ pc[w] = "generate"
    /\ begun_after' = [begun_after EXCEPT ![w] = @ + (IF early_return THEN 1 ELSE 0)]
    /\ \/ /\ \E r \in RandomDraws :
                IF wants_2d_query(ratio, r)
                THEN \E q \in Queries2D(chroms_flat, chrom_ranks(chroms_flat)) :
                        /\ query' = [query EXCEPT ![w] = q]
                        /\ drawn' = [drawn EXCEPT ![w] = <<r, "2d">>]
                ELSE \E q1 \in Queries1D(chroms_flat) :
                        /\ query' = [query EXCEPT ![w] = <<q1, q1>>]
                        /\ drawn' = [drawn EXCEPT ![w] = <<r, "1d">>]
          /\ num_queries' = [num_queries EXCEPT ![w] = @ + 1]
          /\ pc' = [pc EXCEPT ![w] = "exec_ref"]
       \/ /\ ChoicesMayRaise(chroms_flat)
          /\ pc' = [pc EXCEPT ![w] = "except"]
          /\ UNCHANGED <<query, num_queries, drawn>>
    /\ UNCHANGED <<chroms_flat, ratio, end_time, now, early_return,
                   num_failures, expected, found, mpc, pool_error, results,
                   score, exit_status, callVars, flag_writes, num_compared>>

\* worker, line 214: cooler_dump returns a table, or raises
ExecReference(w) ==
    /\ pc[w] = "exec_ref"
    /\ \/ /\ \E t \in ReferenceResults : expected' = [expected EXCEPT ![w] = t]
          /\ pc' = [pc EXCEPT ![w] = "exec_cand"]
       \/ /\ pc' = [pc EXCEPT ![w] = "except"]
          /\ UNCHANGED expected
    /\ UNCHANGED <<chroms_flat, ratio, end_time, now, early_return, num_queries,
                   num_failures, query, found, mpc, pool_error, results,
                   score, exit_status, begun_after, callVars, flag_writes, num_compared, drawn>>

\* worker, line 215: coolerpp_dump returns the parsed table, or raises (the
\* process exits non-zero, or its output does not parse)
ExecCandidate(w) ==
    /\ pc[w] = "exec_cand"
    /\ \/ /\ \E t \in CandidateResults : found' = [found EXCEPT ![w] = t]
          /\ pc' = [pc EXCEPT ![w] = "compare"]
       \/ /\ pc' = [pc EXCEPT ![w] = "except"]
          /\ UNCHANGED found
    /\ UNCHANGED <<chroms_flat, ratio, end_time, now, early_return, num_queries,
                   num_failures, query, expected, mpc, pool_error, results,
                   score, exit_status, begun_after, callVars, flag_writes, num_compared, drawn>>

\* a comparison that counts a mismatch twice
Compare_CountsTwice(w) ==
    /\ pc[w] = "compare"
    /\ num_failures' = [num_failures EXCEPT ![w] =
            IF ~results_are_identical(expected[w], found[w]) THEN @ + 2 ELSE @]
    /\ query' = [query EXCEPT ![w] = NoQuery]
    /\ expected' = [expected EXCEPT ![w] = NoTable]
    /\ found' = [found EXCEPT ![w] = NoTable]
    /\ drawn' = [drawn EXCEPT ![w] = NoDraw]
    /\ num_compared' = [num_compared EXCEPT ![w] = @ + 1]
    /\ pc' = [pc EXCEPT ![w] = "loop"]
    /\ UNCHANGED <<chroms_flat, ratio, end_time, now, early_return, num_queries,
                   mpc, pool_error, results, score, exit_status, begun_after,
                   callVars, flag_writes>>

\* a comparison whose mismatch is raised as an error
Compare_MismatchFatal(w) ==
    /\ pc[w] = "compare"
    /\ pc' = [pc EXCEPT ![w] =
            IF ~results_are_identical(expected[w], found[w]) THEN "except" ELSE "loop"]
    /\ query' = [query EXCEPT ![w] = NoQuery]
    /\ expected' = [expected EXCEPT ![w] = NoTable]
    /\ found' = [found EXCEPT ![w] = NoTable]
    /\ drawn' = [drawn EXCEPT ![w] = NoDraw]
    /\ num_compared' = [num_compared EXCEPT ![w] = @ + 1]
    /\ UNCHANGED <<chroms_flat, ratio, end_time, now, early_return, num_queries,
                   num_failures, mpc, pool_error, results, score, exit_status,
                   begun_after, callVars, flag_writes>>

\* worker, lines 217-218: "if not results_are_identical(...): num_failures += 1"
Compare(w) ==
    /\ pc[w] = "compare"
    /\ num_failures' = [num_failures EXCEPT ![w] =
            IF ~results_are_identical(expected[w], found[w]) THEN @ + 1 ELSE @]
    /\ query' = [query EXCEPT ![w] = NoQuery]
    /\ expected' = [expected EXCEPT ![w] = NoTable]
    /\ found' = [found EXCEPT ![w] = NoTable]
    /\ drawn' = [drawn EXCEPT ![w] = NoDraw]
    /\ num_compared' = [num_compared EXCEPT ![w] = @ + 1]
    /\ pc' = [pc EXCEPT ![w] = "loop"]
    /\ UNCHANGED <<chroms_flat, ratio, end_time, now, early_return, num_queries,
                   mpc, pool_error, results, score, exit_status, begun_after,
                   callVars, flag_writes>>

\* a handler that assigns the flag only when it finds it unset
HandleException_WritesOnce(w) ==
    /\ pc[w] = "except"
    /\ early_return' = TRUE
    /\ pc' = [pc EXCEPT ![w] = "raised"]
    /\ pool_error' = IF pool_error = Unset THEN w ELSE pool_error
    /\ query' = [query EXCEPT ![w] = NoQuery]
    /\ expected' = [expected EXCEPT ![w] = NoTable]
    /\ found' = [found EXCEPT ![w] = NoTable]
    /\ drawn' = [drawn EXCEPT ![w] = NoDraw]
    /\ flag_writes' = flag_writes + (IF early_return THEN 0 ELSE 1)
    /\ UNCHANGED <<chroms_flat, ratio, end_time, now, num_queries,
                   num_failures, mpc, results,
                   score, exit_status, begun_after, callVars, num_compared>>

\* a handler that re-raises without signalling the other workers
HandleException_NoSignal(w) ==
    /\ pc[w] = "except"
    /\ pc' = [pc EXCEPT ![w] = "raised"]
    /\ pool_error' = IF pool_error = Unset THEN w ELSE pool_error
    /\ query' = [query EXCEPT ![w] = NoQuery]
    /\ expected' = [expected EXCEPT ![w] = NoTable]
    /\ found' = [found EXCEPT ![w] = NoTable]
    /\ drawn' = [drawn EXCEPT ![w] = NoDraw]
    /\ UNCHANGED <<chroms_flat, ratio, end_time, now, early_return, num_queries,
                   num_failures, mpc, results,
                   score, exit_status, begun_after, callVars, flag_writes, num_compared>>

\* worker, lines 220-223: "except: early_return.value = True; raise"; the
\* frame is unwound (its query and tables are gone, the tallies are kept here
\* to tell what the task had counted) and the pool keeps the first exception
\* that reaches it
HandleException(w) ==
    /\ pc[w] = "except"
    /\ early_return' = TRUE
    /\ pc' = [pc EXCEPT ![w] = "raised"]
    /\ pool_error' = IF pool_error = Unset THEN w ELSE pool_error
    /\ query' = [query EXCEPT ![w] = NoQuery]
    /\ expected' = [expected EXCEPT ![w] = NoTable]
    /\ found' = [found EXCEPT ![w] = NoTable]
    /\ drawn' = [drawn EXCEPT ![w] = NoDraw]
    /\ flag_writes' = flag_writes + 1
    /\ UNCHANGED <<chroms_flat, ratio, end_time, now, num_queries,
                   num_failures, mpc, results,
                   score, exit_status, begun_after, callVars, num_compared>>

\* time.time() moves on; the instants from end_time on are all alike to the code
Tick ==
    /\ now < end_time
    /\ now' = now + 1
    /\ UNCHANGED <<chroms_flat, ratio, end_time, early_return, pc, num_queries,
                   num_failures, query, expected, found, mpc, pool_error, results,
                   score, exit_status, begun_after, callVars, flag_writes, num_compared, drawn>>

\* --------------------------------------------------------------- main

\* main, lines 229-253: read the table, fix the deadline, hand one task per
\* worker id to the pool
MainStart ==
    /\ mpc = "start"
    /\ \E duration \in 1..MaxDuration : end_time' = now + duration
    /\ pc' = [w \in Workers |-> "start"]
    /\ mpc' = "starmap"
    /\ UNCHANGED <<chroms_flat, ratio, now, early_return, num_queries,
                   num_failures, query, expected, found, pool_error, results,
                   score, exit_status, begun_after, callVars, flag_writes, num_compared, drawn>>

\* what a task that returned hands back: line 225
WorkerResult(w) == <<num_queries[w], num_failures[w]>>

\* the list pool.starmap returns, in task order
StarmapResults == [i \in 1..NProc |-> WorkerResult(i - 1)]

\* a join that re-raises as soon as one task has failed
MainJoin_Eager ==
    /\ mpc = "starmap"
    /\ IF pool_error # Unset
       THEN /\ mpc' = "done"
            /\ exit_status' = 1
            /\ UNCHANGED results
       ELSE /\ \A w \in Workers : Terminated(w)
            /\ mpc' = "aggregate"
            /\ results' = StarmapResults
            /\ UNCHANGED exit_status
    /\ UNCHANGED <<chroms_flat, ratio, end_time, now, early_return, pc, num_queries,
                   num_failures, query, expected, found, pool_error,
                   score, begun_after, callVars, flag_writes, num_compared, drawn>>

\* a join that drops the exception and hands the tallies on
MainJoin_KeepsTallies ==
    /\ mpc = "starmap"
    /\ \A w \in Workers : Terminated(w)
    /\ mpc' = "aggregate"
    /\ results' = StarmapResults
    /\ UNCHANGED <<chroms_flat, ratio, end_time, now, early_return, pc, num_queries,
                   num_failures, query, expected, found, pool_error,
                   score, exit_status, begun_after, callVars, flag_writes, num_compared, drawn>>

\* main, line 238: pool.starmap returns once every task has ended; it re-raises
\* the exception of a task if there is one, and main, which catches nothing,
\* ends with a traceback and status 1
MainJoin ==
    /\ mpc = "starmap"
    /\ \A w \in Workers : Terminated(w)
    /\ IF pool_error # Unset
       THEN /\ mpc' = "done"
            /\ exit_status' = 1
            /\ UNCHANGED results
       ELSE /\ mpc' = "aggregate"
            /\ results' = StarmapResults
            /\ UNCHANGED exit_status
    /\ UNCHANGED <<chroms_flat, ratio, end_time, now, early_return, pc, num_queries,
                   num_failures, query, expected, found, pool_error,
                   score, begun_after, callVars, flag_writes, num_compared, drawn>>

\* main, line 264: "100 * num_passes / num_queries" raises ZeroDivisionError
score_raises(total_queries) == total_queries = 0

\* main, line 267 and line 279: sys.exit(num_failures != 0)
main_status(total_failures) == IF total_failures # 0 THEN 1 ELSE 0

\* main, lines 258-261
log_level(total_failures) == IF total_failures = 0 THEN "INFO" ELSE "WARN"

\* main, lines 255-267 and line 279
MainAggregate ==
    /\ mpc = "aggregate"
    /\ LET total_queries == SumSeq([i \in 1..NProc |-> results[i][1]])
           total_failures == SumSeq([i \in 1..NProc |-> results[i][2]])
           num_passes == total_queries - total_failures
       IN  IF score_raises(total_queries)
           THEN /\ exit_status' = 1
                /\ UNCHANGED score
           ELSE /\ score' = <<log_level(total_failures), num_passes, total_failures>>
                /\ exit_status' = main_status(total_failures)
    /\ mpc' = "done"
    /\ UNCHANGED <<chroms_flat, ratio, end_time, now, early_return, pc, num_queries,
                   num_failures, query, expected, found, pool_error, results,
                   begun_after, callVars, flag_writes, num_compared, drawn>>

\* ------------------------------------------------------- specifications

NoCall == <<"none">>

WorkersIdle ==
    /\ end_time = 0
    /\ now = 0
    /\ early_return = FALSE
    /\ pc = [w \in Workers |-> "idle"]
    /\ num_queries = [w \in Workers |-> 0]
    /\ num_failures = [w \in Workers |-> 0]
    /\ query = [w \in Workers |-> NoQuery]
    /\ expected = [w \in Workers |-> NoTable]
    /\ found = [w \in Workers |-> NoTable]
    /\ mpc = "start"
    /\ pool_error = Unset
    /\ results = <<>>
    /\ score = <<>>
    /\ exit_status = Unset
    /\ begun_after = [w \in Workers |-> 0]
    /\ flag_writes = 0
    /\ num_compared = [w \in Workers |-> 0]
    /\ drawn = [w \in Workers |-> NoDraw]

NoCalls ==
    /\ gen_in = NoCall
    /\ gen_out = NoCall
    /\ cmp_in = NoCall
    /\ cmp_out = NoCall

\* the process as "__main__" starts it (lines 276-279)
Init ==
    /\ chroms_flat \in WorkerTables
    /\ ratio \in RatioValues
    /\ WorkersIdle
    /\ NoCalls

WorkerStep(w) ==
    \/ WorkerStart(w)
    \/ LoopTest(w)
    \/ Poll(w)
    \/ Generate(w)
    \/ ExecReference(w)
    \/ ExecCandidate(w)
    \/ Compare(w)
    \/ HandleException(w)

Next ==
    \/ MainStart
    \/ MainJoin
    \/ MainAggregate
    \/ Tick
    \/ \E w \in Workers : WorkerStep(w)

Spec == Init /\ [][Next]_vars

\* the processes are scheduled by the operating system, the clock advances,
\* and every call of an executor ends
\* the runs with the ratio 0.5, which draw 1D and 2D queries alike
InitFair ==
    /\ Init
    /\ ratio = 1

FairSpec ==
    /\ InitFair
    /\ [][Next]_vars
    /\ WF_vars(MainStart)
    /\ WF_vars(MainJoin)
    /\ WF_vars(MainAggregate)
    /\ WF_vars(Tick)
    /\ \A w \in Workers : WF_vars(WorkerStep(w))

\* ---------------------------------- calls of the query generators alone

ChromIds == 1..MaxChroms

\* the ordered tables of at most MaxChroms chromosomes, names unique
ChromTables ==
    UNION {{t \in [1..n -> ChromIds \X (0..MaxSize)] :
                \A i, j \in 1..n : i # j => t[i][1] # t[j][1]} : n \in 0..MaxChroms}

\* the PRNG draws of a call, when the table allows any
GenInputs(chroms) ==
    IF Draws(chroms) = {} THEN {NoCall}
    ELSE {<<"draws", d1, d2>> : d1 \in Draws(chroms), d2 \in Draws(chroms)}

InitGen ==
    /\ chroms_flat \in ChromTables
    /\ ratio = 0
    /\ WorkersIdle
    /\ gen_in \in GenInputs(chroms_flat)
    /\ gen_out = NoCall
    /\ cmp_in = NoCall
    /\ cmp_out = NoCall

\* generate_query_1d(chroms, weights, mean_length, stddev_length)
CallGenerate1D ==
    /\ gen_out = NoCall
    /\ \/ /\ gen_in # NoCall
          /\ gen_out' = <<"1d", generate_query_1d(chroms_flat, gen_in[2])>>
       \/ /\ ChoicesMayRaise(chroms_flat)
          /\ gen_out' = <<"raise">>
    /\ UNCHANGED <<workerVars, gen_in, cmp_in, cmp_out>>

\* generate_query_2d(chroms, weights, ranks, mean_length, stddev_length)
CallGenerate2D ==
    /\ gen_out = NoCall
    /\ \/ /\ gen_in # NoCall
          /\ LET q == generate_query_2d(chroms_flat, chrom_ranks(chroms_flat),
                                        gen_in[2], gen_in[3])
             IN  gen_out' = <<"2d", q[1], q[2]>>
       \/ /\ ChoicesMayRaise(chroms_flat)
          /\ gen_out' = <<"raise">>
    /\ UNCHANGED <<workerVars, gen_in, cmp_in, cmp_out>>

NextGen ==
    \/ CallGenerate1D
    \/ CallGenerate2D

SpecGen == InitGen /\ [][NextGen]_vars

\* ------------------------------------------ calls of the comparator alone

InitCmp ==
    /\ chroms_flat = <<>>
    /\ ratio = 0
    /\ WorkersIdle
    /\ gen_in = NoCall
    /\ gen_out = NoCall
    /\ cmp_in \in {<<"tables", e, f>> : e \in ResultTables, f \in ResultTables}
    /\ cmp_out = NoCall

\* results_are_identical(worker_id, q1, q2, expected, found)
CallCompare ==
    /\ cmp_out = NoCall
    /\ cmp_out' = <<"returned", results_are_identical(cmp_in[2], cmp_in[3])>>
    /\ UNCHANGED <<workerVars, gen_in, gen_out, cmp_in>>

NextCmp ==
    \/ CallCompare

SpecCmp == InitCmp /\ [][NextCmp]_vars

\* ================================================================ claims

Raised(w) == pc[w] = "raised"
Returned(w) == pc[w] = "returned"
TotalQueries == SumSeq([i \in 1..NProc |-> num_queries[i - 1]])
TotalFailures == SumSeq([i \in 1..NProc |-> num_failures[i - 1]])

\* C1: when the ratio is 0, every query a worker generates is a 1D query: a
\* pair whose first and second range are identical.
C1_RatioZeroOnly1D ==
    ratio = 0 =>
        \A w \in Workers : query[w] # NoQuery => query[w][1] = query[w][2]

\* C2: when every worker returned cleanly and no query was executed at all,
\* the aggregator ends without an error: the exit status is the no-failure one.
C2_ZeroQueriesNoError ==
    (/\ mpc = "done"
     /\ \A w \in Workers : Returned(w)
     /\ TotalQueries = 0) => exit_status = 0

\* C3 (as stated): when a worker ended with a fatal error and others returned
\* cleanly, the tallies of those that returned are kept and summed.
C3_CleanTalliesRetained ==
    (/\ mpc = "done"
     /\ \E w \in Workers : Raised(w)
     /\ \E w \in Workers : Returned(w)) =>
        /\ results # <<>>
        /\ score # <<>>

\* C3 (amended): when a worker ended with a fatal error, no tally at all
\* reaches the aggregator: starmap re-raises, nothing is summed, no score is
\* logged and the status is 1, whatever the other workers returned.
C3_FaultDiscardsEveryTally ==
    (/\ mpc = "done"
     /\ \E w \in Workers : Raised(w)) =>
        /\ results = <<>>
        /\ score = <<>>
        /\ exit_status = 1

\* a run that ended with one worker faulted and another returned with a tally
C3_Witness ==
    /\ mpc = "done"
    /\ \E w \in Workers : Raised(w)
    /\ \E w \in Workers : Returned(w) /\ num_queries[w] > 0

\* C4: the exit status is 0 if and only if the failures of all workers sum to
\* 0 and no worker raised a fatal error; otherwise it is 1.
C4_ExitStatusIff ==
    mpc = "done" =>
        /\ exit_status \in {0, 1}
        /\ exit_status = 0 <=>
                (TotalFailures = 0 /\ \A w \in Workers : ~Raised(w))

\* C5: whenever a worker hits a fatal error (it is in its "except" clause), the
\* flag is set before the worker ends, the worker ends by raising and never
\* by returning a tally, and main eventually ends with status 1 and no score.
C5_FatalErrorSurfaces ==
    /\ [](\A w \in Workers : Raised(w) => early_return)
    /\ [][\A w \in Workers : pc[w] = "except" => pc'[w] \in {"except", "raised"}]_vars
    /\ (\E w \in Workers : pc[w] = "except")
            ~> (mpc = "done" /\ exit_status = 1 /\ score = <<>>)

\* a run that ended after one worker raised while another was cancelled and
\* returned a tally
C5_Witness ==
    /\ mpc = "done"
    /\ exit_status = 1
    /\ \E w \in Workers : Raised(w)
    /\ \E w \in Workers : Returned(w) /\ num_queries[w] > 0 /\ now < end_time

\* C6: once the flag is set, a worker begins at most one more query (the one
\* whose flag check it had passed), and a worker whose flag check finds the
\* flag set leaves the loop for good.
C6_CancelledWithinOneIteration ==
    /\ [](\A w \in Workers : begun_after[w] <= 1)
    /\ [][\A w \in Workers :
            (pc[w] = "poll" /\ early_return /\ pc'[w] # "poll") => pc'[w] = "returned"]_vars
    /\ [][\A w \in Workers : Returned(w) => pc'[w] = "returned"]_vars

\* a worker that began a query after the flag was set, and then stopped at
\* its next flag check before the deadline
C6_Witness ==
    \E w \in Workers :
        /\ begun_after[w] = 1
        /\ Returned(w)
        /\ now < end_time

\* the rank of a chromosome: its position in the table
TableRank(n) == CHOOSE i \in DOMAIN chroms_flat : chroms_flat[i][1] = n

\* C7: every pair generate_query_2d returns is in canonical order: on
\* different chromosomes the rank of the first is <= that of the second, on
\* the same chromosome the rounded start of the first is <= that of the second.
C7_CanonicalOrder ==
    gen_out[1] = "2d" =>
        LET q1 == gen_out[2]
            q2 == gen_out[3]
        IN  /\ q1.chrom # q2.chrom => TableRank(q1.chrom) <= TableRank(q2.chrom)
            /\ q1.chrom = q2.chrom => q1.start <= q2.start

\* a returned pair that is the two generated ranges swapped, on one
\* chromosome (by start)
C7_Witness ==
    /\ gen_out[1] = "2d"
    /\ gen_out[2] = generate_query_1d(chroms_flat, gen_in[3])
    /\ gen_out[3] = generate_query_1d(chroms_flat, gen_in[2])
    /\ gen_out[2].chrom = gen_out[3].chrom
    /\ gen_out[2].start < gen_out[3].start

\* C8: every range generate_query_1d returns, as serialized, satisfies
\* 0 <= start <= end <= size of the chromosome it names.
C8_RangeWithinChromosome ==
    gen_out[1] = "1d" =>
        LET q == gen_out[2]
            size == chroms_flat[TableRank(q.chrom)][2]
        IN  /\ 0 <= q.start
            /\ q.start <= q.end
            /\ q.end <= size

\* a range whose sampled length was below the floor of 2, whose start is
\* positive and whose end was clamped to the chromosome's size
C8_Witness ==
    /\ gen_out[1] = "1d"
    /\ gen_in[2].gauss2 < 4
    /\ gen_out[2].start > 0
    /\ gen_out[2].end = chroms_flat[gen_in[2].pick][2]

\* f holds the rows of e in another order
Reordered(e, f) ==
    /\ Len(e) = Len(f)
    /\ e # f
    /\ \E p \in Permutations(DOMAIN e) : f = [i \in DOMAIN e |-> e[p[i]]]

\* C9: the comparator is sensitive to row order: comparing a table with the
\* same rows in another order returns false, and so does comparing tables of
\* different row counts.
C9_RowOrderSensitive ==
    cmp_out[1] = "returned" =>
        /\ Reordered(cmp_in[2], cmp_in[3]) => cmp_out[2] = FALSE
        /\ Len(cmp_in[2]) # Len(cmp_in[3]) => cmp_out[2] = FALSE

\* a comparison of a three-row table with a reordering of it
C9_Witness ==
    /\ cmp_out[1] = "returned"
    /\ Len(cmp_in[2]) = 3
    /\ Reordered(cmp_in[2], cmp_in[3])
    /\ cmp_out[2] = FALSE

\* C10: a mismatch is not fatal: the comparison of differing tables adds
\* exactly 1 to the failures, leaves the flag alone and goes back to the loop;
\* the comparison of identical tables leaves the failures unchanged; over the
\* iteration the queries grow by exactly 1 (at the count, before the
\* executors) and nothing else touches the tallies.
C10_MismatchNotFatal ==
    [][\A w \in Workers :
        /\ (pc[w] = "compare" /\ pc'[w] # "compare") =>
                /\ pc'[w] = "loop"
                /\ early_return' = early_return
                /\ num_queries'[w] = num_queries[w]
                /\ num_failures'[w] =
                        IF expected[w] = found[w]
                        THEN num_failures[w]
                        ELSE num_failures[w] + 1
        /\ (pc[w] = "generate" /\ pc'[w] = "exec_ref") =>
                /\ num_queries'[w] = num_queries[w] + 1
                /\ num_failures'[w] = num_failures[w]
        /\ pc[w] \in {"exec_ref", "exec_cand"} =>
                /\ num_queries'[w] = num_queries[w]
                /\ num_failures'[w] = num_failures[w]]_vars

\* a worker that counted a mismatch, went on to a second query, and no flag
\* was set
C10_Witness ==
    \E w \in Workers :
        /\ num_failures[w] = 1
        /\ num_queries[w] = 2
        /\ pc[w] = "compare"
        /\ expected[w] = found[w]
        /\ ~early_return

\* C11 (as stated): the cancellation flag is written by at most one worker
\* in every run, also when several workers hit fatal errors.
C11_SingleWriter == flag_writes <= 1

\* C11 (amended): every worker that hits a fatal error assigns true to the
\* flag, so the writes number the faulted workers; the value of the flag
\* changes at most once, from false to true, at the first of these writes.
C11_EveryFaultWritesValueChangesOnce ==
    /\ [](flag_writes = Cardinality({w \in Workers : Raised(w)}))
    /\ [][early_return' # early_return =>
            /\ flag_writes = 0
            /\ flag_writes' = 1
            /\ early_return']_vars

\* both workers faulted and both wrote the flag
C11_Witness ==
    /\ flag_writes = 2
    /\ early_return
    /\ \A w \in Workers : Raised(w)

\* C12: the flag starts false, no step takes it from true back to false,
\* and it is true only if some worker has hit a fatal error.
C12_FlagMonotonic ==
    /\ ~early_return
    /\ [][early_return => early_return']_vars
    /\ [](early_return => \E w \in Workers : Raised(w))

\* the flag is set by a faulted worker while another worker is in the
\* middle of an iteration
C12_Witness ==
    /\ early_return
    /\ \E w, v \in Workers :
        /\ Raised(w)
        /\ pc[v] \in {"exec_ref", "exec_cand", "compare"}

C14_CanonicalizeIdempotent ==
    gen_out[1] = "2d" =>
        canonicalize(chrom_ranks(chroms_flat), gen_out[2], gen_out[3])
            = <<gen_out[2], gen_out[3]>>

\* a returned pair that is the two generated ranges swapped by rank, on two
\* chromosomes
C14_Witness ==
    /\ gen_out[1] = "2d"
    /\ gen_out[2] = generate_query_1d(chroms_flat, gen_in[3])
    /\ gen_out[3] = generate_query_1d(chroms_flat, gen_in[2])
    /\ TableRank(gen_out[2].chrom) < TableRank(gen_out[3].chrom)

\* C15: every worker's tallies satisfy 0 <= failures <= queries, the sums
\* over the returned tallies satisfy the same, and the number of passes in
\* the score is never negative.
C15_FailuresWithinQueries ==
    /\ \A w \in Workers :
        /\ 0 <= num_failures[w]
        /\ num_failures[w] <= num_queries[w]
    /\ results # <<>> =>
        LET total_queries == SumSeq([i \in 1..NProc |-> results[i][1]])
            total_failures == SumSeq([i \in 1..NProc |-> results[i][2]])
        IN  /\ 0 <= total_failures
            /\ total_failures <= total_queries
    /\ score # <<>> => (score[2] >= 0 /\ score[3] >= 0)

\* a score in which every query of every worker failed: no passes
C15_Witness ==
    /\ score # <<>>
    /\ score[2] = 0
    /\ score[3] = NProc * MaxQueries

\* C16: a worker that returned has counted exactly the queries that went
\* through both executors and the comparison.
C16_NoPartialQueryCounted ==
    \A w \in Workers : Returned(w) => num_queries[w] = num_compared[w]

\* a worker returned on the flag with a counted query, while the worker that
\* raised had counted a query it never compared
C16_Witness ==
    \E w, v \in Workers :
        /\ Returned(w)
        /\ early_return
        /\ now < end_time
        /\ num_queries[w] = 1
        /\ Raised(v)
        /\ num_queries[v] = num_compared[v] + 1

\* C17: no worker runs before the deadline is computed, the deadline never
\* changes afterwards, a query is generated only after a loop test that saw
\* now < end_time, and a loop test that sees now >= end_time returns with
\* the tallies as they were.
C17_SharedDeadline ==
    /\ [](mpc = "start" => \A w \in Workers : pc[w] = "idle")
    /\ [][mpc # "start" => end_time' = end_time]_vars
    /\ [][\A w \in Workers :
            /\ (pc[w] = "loop" /\ pc'[w] # "loop") =>
                    IF now < end_time
                    THEN pc'[w] = "poll"
                    ELSE /\ pc'[w] = "returned"
                         /\ num_queries'[w] = num_queries[w]
                         /\ num_failures'[w] = num_failures[w]
                         /\ query'[w] = NoQuery
            /\ (pc'[w] = "poll" /\ pc[w] # "poll") => pc[w] = "loop"
            /\ (pc'[w] = "generate" /\ pc[w] # "generate") => pc[w] = "poll"]_vars

\* a worker stopped by the deadline, with a counted query, and no flag
C17_Witness ==
    \E w \in Workers :
        /\ Returned(w)
        /\ ~(now < end_time)
        /\ num_queries[w] >= 1
        /\ ~early_return

\* C18: the list of tallies, the score, the exit status and the end of main
\* exist only in states where every worker has returned or raised.
C18_AggregateAfterJoin ==
    (\/ mpc \in {"aggregate", "done"}
     \/ results # <<>>
     \/ score # <<>>
     \/ exit_status # Unset) => \A w \in Workers : Terminated(w)

\* a worker's error re-raised by main after the other worker had returned a
\* tally
C18_Witness ==
    /\ mpc = "done"
    /\ exit_status = 1
    /\ \E w, v \in Workers :
        /\ Raised(w)
        /\ Returned(v)
        /\ num_queries[v] >= 1

C20_FailsOnlyOnEmptyTable ==
    gen_out[1] = "raise" => Len(chroms_flat) = 0

====
